---- MODULE Spec2Model ----
(***************************************************************************)
(* Model of claude_message_visualizer/visualizer.py: visualize_message,    *)
(* the block dispatcher _render_block and the per-variant renderers.       *)
(*                                                                         *)
(* Python values are modelled as follows.                                  *)
(*   - An object is a record; hasattr(obj, f) is f \in DOMAIN obj.         *)
(*     The field py is the Python shape of the value ("pydantic": exposes  *)
(*     model_dump, "object": exposes __dict__, "dict": a mapping, which    *)
(*     has no attributes); the field enc says how far json.dumps gets on   *)
(*     the value's fields ("json": natively encodable, "str_only":         *)
(*     encodable only through default=str, "unencodable": json.dumps       *)
(*     raises even with default=str).                                      *)
(*   - A str is a sequence of one-character strings.                       *)
(*   - Markup is a record (a fragment) or a sequence of fragments instead  *)
(*     of a character string; concatenation is Append / \o.                *)
(*   - A call that can raise returns [ok |-> FALSE, error |-> e]; a call   *)
(*     that returns v returns [ok |-> TRUE, html |-> v].                   *)
(***************************************************************************)
EXTENDS Integers, Sequences, FiniteSets, TLC

VARIABLES message, pc, idx, header_html, content_html, displayed, error

vars == <<message, pc, idx, header_html, content_html, displayed, error>>

(* ----------------------------- bounds ---------------------------------- *)

MaxBlocks == 2

MaxCiteBlocks == 3

MaxTextBlocks == 1

MaxResults == 2

MaxCitations == 2

(* ------------------------- program constants --------------------------- *)

LongTextLimit == 1000

CitedTextLimit == 100

(* ------------------------- Python primitives --------------------------- *)

Whitespace == {" ", "\t"}

Min(S) == CHOOSE m \in S : \A n \in S : m <= n

Max(S) == CHOOSE m \in S : \A n \in S : m >= n

\* str.strip(): drop the leading and the trailing whitespace characters
strip(text) ==
    LET keep == {i \in 1..Len(text) : text[i] \notin Whitespace}
    IN  IF keep = {} THEN <<>> ELSE SubSeq(text, Min(keep), Max(keep))

IsDict(obj) == "py" \in DOMAIN obj /\ obj.py = "dict"

hasattr(obj, f) == ~IsDict(obj) /\ f \in DOMAIN obj

Ok(h) == [ok |-> TRUE, html |-> h]

Raise(e) == [ok |-> FALSE, error |-> e]

PyNone == "<None>"

Meta == {"py", "enc"}

\* the mapping json.dumps walks: the value's fields without the modelling tags
fields_of(obj) == [f \in (DOMAIN obj) \ Meta |-> obj[f]]

\* json.dumps(value, indent=2 [, default=str]): TypeError/ValueError on a
\* value it cannot encode
json_dumps(value, default_str) ==
    IF value.enc = "json" \/ (default_str /\ value.enc = "str_only")
    THEN Ok([json |-> fields_of(value), indent |-> 2,
             stringified |-> value.enc = "str_only"])
    ELSE Raise("TypeError")

Placeholder(e) == [unable_to_serialize |-> e]

_safe_json(obj) ==
    LET r == IF obj.py = "pydantic" THEN json_dumps(obj, FALSE)
             ELSE IF obj.py = "object" THEN json_dumps(obj, TRUE)
             ELSE json_dumps(obj, TRUE)
    IN  IF r.ok THEN r.html ELSE Placeholder(r.error)

(* ------------------------------ tables --------------------------------- *)

KnownTypes == {"text", "tool_use", "tool_result", "server_tool_use",
               "web_search_tool_result", "image", "thinking", "document"}

_get_block_tooltip_text(block_type) ==
    IF block_type \in KnownTypes THEN "tooltip: " \o block_type ELSE PyNone

\* block_type.replace('_', ' ') on the tags the inputs use
replace_underscore(block_type) ==
    CASE block_type = "tool_use" -> "tool use"
      [] block_type = "tool_result" -> "tool result"
      [] block_type = "server_tool_use" -> "server tool use"
      [] block_type = "web_search_tool_result" -> "web search tool result"
      [] block_type = "web_search_result" -> "web search result"
      [] block_type = "redacted_thinking" -> "redacted thinking"
      [] OTHER -> block_type

(* --------------------------- text renderer ----------------------------- *)

Put(map, k, v) == [x \in (DOMAIN map) \cup {k} |-> IF x = k THEN v ELSE map[x]]

EmptyMap == [x \in {} |-> 0]

\* the enumerate index stored as it is
result_index_from_zero(i) == i

\* line 254: the display index stored for the result at enumerate index i
result_index(i) == i + 1

RECURSIVE map_results(_, _, _)
map_results(results, i, map) ==
    IF i >= Len(results) THEN map
    ELSE map_results(results, i + 1,
            IF hasattr(results[i + 1], "url")
            THEN Put(map, results[i + 1].url, result_index(i))
            ELSE map)

is_search_block(msg_block) ==
    hasattr(msg_block, "type") /\ msg_block.type = "web_search_tool_result"

RECURSIVE map_blocks(_, _, _)
map_blocks(content, i, map) ==
    IF i > Len(content) THEN Ok(map)
    ELSE IF is_search_block(content[i])
    THEN IF hasattr(content[i], "content")
         THEN map_blocks(content, i + 1, map_results(content[i].content, 0, map))
         ELSE Raise("AttributeError")
    ELSE map_blocks(content, i + 1, map)

\* lines 247-254; the Response object is truthy, so line 248 always passes
url_to_index(msg) == map_blocks(msg.content, 1, EmptyMap)

Ellipsis == <<".", ".", ".">>

\* the excerpt cut from CitedTextLimit characters on
truncate_cited_at_limit(cited_text) ==
    IF Len(cited_text) >= CitedTextLimit
    THEN SubSeq(cited_text, 1, CitedTextLimit) \o Ellipsis
    ELSE cited_text

\* line 260
truncate_cited(cited_text) ==
    IF Len(cited_text) > CitedTextLimit
    THEN SubSeq(cited_text, 1, CitedTextLimit) \o Ellipsis
    ELSE cited_text

\* the fallback counted from zero
citation_number_from_zero(citation, i, map) ==
    IF hasattr(citation, "url") /\ citation.url \in DOMAIN map
    THEN map[citation.url]
    ELSE i

\* sequential numbering only, the map ignored
citation_number_sequential(citation, i, map) == i + 1

\* lines 263-266; i is the enumerate index of the citation
citation_number(citation, i, map) ==
    IF hasattr(citation, "url") /\ citation.url \in DOMAIN map
    THEN map[citation.url]
    ELSE i + 1

RECURSIVE citation_info(_, _, _)
citation_info(citations, i, map) ==
    IF i >= Len(citations) THEN <<>>
    ELSE (IF hasattr(citations[i + 1], "cited_text")
          THEN << [citation_number |-> citation_number(citations[i + 1], i, map),
                   cited_text |-> truncate_cited(citations[i + 1].cited_text)] >>
          ELSE <<>>)
         \o citation_info(citations, i + 1, map)

\* the emptiness test without strip()
is_empty_no_strip(text) == Len(text) = 0

\* line 240
is_empty(text) == Len(text) = 0 \/ strip(text) = <<>>

\* line 243; a citations field of None and of [] are both falsy and the
\* field is read no further in either case: <<>> stands for both
has_citations(block) == hasattr(block, "citations") /\ Len(block.citations) > 0

\* the long-form test from LongTextLimit characters on
is_long_at_limit(text) == Len(text) >= LongTextLimit

\* line 304
is_long(text) == Len(text) > LongTextLimit

\* lines 245, 291, 304, 328: which branch renders the text
text_path(block) ==
    IF has_citations(block) THEN "citations"
    ELSE IF is_empty(block.text) THEN "empty"
    ELSE IF is_long(block.text) THEN "long"
    ELSE "plain"

_render_text_block(block, msg) ==
    IF ~hasattr(block, "text") THEN Raise("AttributeError")
    ELSE LET path == text_path(block) IN
         IF path = "citations"
         THEN LET m == url_to_index(msg) IN
              IF ~m.ok THEN m
              ELSE Ok([path |-> "citations", text |-> block.text,
                       citation_info |-> citation_info(block.citations, 0, m.html)])
         ELSE IF path = "empty" THEN Ok([path |-> "empty"])
         ELSE IF path = "long"
         THEN Ok([path |-> "long", characters |-> Len(block.text), text |-> block.text])
         ELSE Ok([path |-> "plain", text |-> block.text])

(* --------------------------- other renderers --------------------------- *)

\* lines 344-371 (and 426-453): name, id, then json.dumps(block.input, indent=2)
_render_tool_use_block(block) ==
    IF ~hasattr(block, "name") \/ ~hasattr(block, "id") \/ ~hasattr(block, "input")
    THEN Raise("AttributeError")
    ELSE LET j == json_dumps(block.input, FALSE) IN
         IF ~j.ok THEN j
         ELSE Ok([renderer |-> "tool_use", name |-> block.name, id |-> block.id,
                  input |-> j.html])

_render_server_tool_use_block(block) ==
    IF ~hasattr(block, "name") \/ ~hasattr(block, "id") \/ ~hasattr(block, "input")
    THEN Raise("AttributeError")
    ELSE LET j == json_dumps(block.input, FALSE) IN
         IF ~j.ok THEN j
         ELSE Ok([renderer |-> "server_tool_use", name |-> block.name,
                  id |-> block.id, input |-> j.html])

\* the tag line left out
content_tag_dropped(content_block) == <<>>

\* lines 413-414: the tag line of a sub-segment, <<>> when it has no type
\* attribute
content_tag(content_block) ==
    IF hasattr(content_block, "type") THEN <<content_block.type>> ELSE <<>>

\* the badge shown whenever the field is there
is_error_if_present(block) == hasattr(block, "is_error")

\* line 376
is_error(block) == hasattr(block, "is_error") /\ block.is_error

\* lines 412-415: one entry per sub-segment of a list content
RECURSIVE render_content_list(_, _)
render_content_list(items, i) ==
    IF i > Len(items) THEN <<>>
    ELSE << [tag |-> content_tag(items[i]),
             serialized |-> _safe_json(items[i])] >>
         \o render_content_list(items, i + 1)

\* lines 374-423; content.py is the Python type isinstance tests
_render_tool_result_block(block) ==
    IF ~hasattr(block, "tool_use_id") \/ ~hasattr(block, "content")
    THEN Raise("AttributeError")
    ELSE Ok([renderer |-> "tool_result",
             tool_use_id |-> block.tool_use_id,
             error_badge |-> is_error(block),
             result |-> IF block.content.py = "str"
                        THEN [verbatim |-> block.content.value]
                        ELSE IF block.content.py = "list"
                        THEN [list |-> render_content_list(block.content.items, 1)]
                        ELSE [str |-> block.content.repr]])

\* lines 483-523; index is the enumerate index of the result
_render_individual_search_result(result, index) ==
    IF \E f \in {"title", "url", "page_age", "encrypted_content"} : ~hasattr(result, f)
    THEN Raise("AttributeError")
    ELSE Ok([result_label |-> index + 1, title |-> result.title, url |-> result.url,
             page_age |-> result.page_age,
             encrypted_characters |-> Len(result.encrypted_content)])

\* every result rendered, whatever its tag
RECURSIVE render_results_unfiltered(_, _)
render_results_unfiltered(results, i) ==
    IF i >= Len(results) THEN Ok(<<>>)
    ELSE LET rest == render_results_unfiltered(results, i + 1)
             r == _render_individual_search_result(results[i + 1], i) IN
         IF ~r.ok THEN r
         ELSE IF ~rest.ok THEN rest
         ELSE Ok(<<r.html>> \o rest.html)

\* lines 476-478: the results tagged 'web_search_result', in list order
RECURSIVE render_results(_, _)
render_results(results, i) ==
    IF i >= Len(results) THEN Ok(<<>>)
    ELSE LET rest == render_results(results, i + 1) IN
         IF hasattr(results[i + 1], "type") /\ results[i + 1].type = "web_search_result"
         THEN LET r == _render_individual_search_result(results[i + 1], i) IN
              IF ~r.ok THEN r
              ELSE IF ~rest.ok THEN rest
              ELSE Ok(<<r.html>> \o rest.html)
         ELSE rest

\* lines 456-480
_render_web_search_result_block(block, depth) ==
    IF ~hasattr(block, "content") THEN Raise("AttributeError")
    ELSE LET r == render_results(block.content, 0) IN
         IF ~r.ok THEN r
         ELSE Ok([renderer |-> "web_search_tool_result",
                  results_count |-> Len(block.content), entries |-> r.html])

\* attribute access only, a mapping not told apart
source_get_attribute_only(source, key) ==
    IF hasattr(source, key) THEN Ok(<<source[key]>>) ELSE Raise("AttributeError")

\* source.get(key) on a mapping (None when absent), source.key on an object
source_get(source, key) ==
    IF IsDict(source)
    THEN Ok(IF key \in DOMAIN source THEN <<source[key]>> ELSE <<>>)
    ELSE IF hasattr(source, key) THEN Ok(<<source[key]>>)
    ELSE Raise("AttributeError")

\* lines 526-565; an optional value is <<>> (None) or <<v>>
_render_image_block(block) ==
    IF ~hasattr(block, "source") THEN Raise("AttributeError")
    ELSE LET source == block.source
             source_type == source_get(source, "type") IN
         IF ~source_type.ok THEN source_type
         ELSE IF source_type.html = <<"base64">>
         THEN LET media_type == source_get(source, "media_type")
                  data == source_get(source, "data") IN
              IF ~media_type.ok THEN media_type
              ELSE IF ~data.ok THEN data
              ELSE Ok([renderer |-> "image", source_type |-> source_type.html,
                       media_type |-> media_type.html,
                       size |-> IF data.html # <<>> /\ Len(data.html[1]) > 0
                                THEN Len(data.html[1]) ELSE 0,
                       img_src |-> [scheme |-> "data", media_type |-> media_type.html,
                                    base64 |-> data.html]])
         ELSE IF source_type.html = <<"url">>
         THEN LET url == source_get(source, "url") IN
              IF ~url.ok THEN url
              ELSE Ok([renderer |-> "image", source_type |-> source_type.html,
                       url |-> url.html, img_src |-> [href |-> url.html]])
         ELSE Ok([renderer |-> "image", source_type |-> source_type.html])

\* lines 568-598
_render_thinking_block(block) ==
    IF ~hasattr(block, "thinking") THEN Raise("AttributeError")
    ELSE Ok([renderer |-> "thinking", characters |-> Len(block.thinking),
             thinking |-> block.thinking])

\* lines 601-635
_render_document_block(block) ==
    IF ~hasattr(block, "source") THEN Raise("AttributeError")
    ELSE LET source == block.source
             source_type == source_get(source, "type") IN
         IF ~source_type.ok THEN source_type
         ELSE IF source_type.html = <<"base64">>
         THEN LET media_type == source_get(source, "media_type")
                  data == source_get(source, "data") IN
              IF ~media_type.ok THEN media_type
              ELSE IF ~data.ok THEN data
              ELSE Ok([renderer |-> "document", source_type |-> source_type.html,
                       media_type |-> media_type.html,
                       size |-> IF data.html # <<>> /\ Len(data.html[1]) > 0
                                THEN Len(data.html[1]) ELSE 0,
                       preview |-> "not available"])
         ELSE Ok([renderer |-> "document", source_type |-> source_type.html])

(* ----------------------------- dispatcher ------------------------------ *)

\* the badge counted from one
block_badge_from_one(index) == index + 1

\* line 186: the index badge of the block shell
block_badge(index) == index

\* the dispatch without the generic fallback
render_body_strict(block, msg, depth) ==
    LET block_type == block.type IN
    IF block_type = "text" THEN _render_text_block(block, msg)
    ELSE IF block_type = "tool_use" THEN _render_tool_use_block(block)
    ELSE IF block_type = "tool_result" THEN _render_tool_result_block(block)
    ELSE IF block_type = "server_tool_use" THEN _render_server_tool_use_block(block)
    ELSE IF block_type = "web_search_tool_result"
    THEN _render_web_search_result_block(block, depth)
    ELSE IF block_type = "image" THEN _render_image_block(block)
    ELSE IF block_type = "thinking" THEN _render_thinking_block(block)
    ELSE IF block_type = "document" THEN _render_document_block(block)
    ELSE Raise("ValueError")

\* lines 203-229: the renderer the variant tag selects
render_body(block, msg, depth) ==
    LET block_type == block.type IN
    IF block_type = "text" THEN _render_text_block(block, msg)
    ELSE IF block_type = "tool_use" THEN _render_tool_use_block(block)
    ELSE IF block_type = "tool_result" THEN _render_tool_result_block(block)
    ELSE IF block_type = "server_tool_use" THEN _render_server_tool_use_block(block)
    ELSE IF block_type = "web_search_tool_result"
    THEN _render_web_search_result_block(block, depth)
    ELSE IF block_type = "image" THEN _render_image_block(block)
    ELSE IF block_type = "thinking" THEN _render_thinking_block(block)
    ELSE IF block_type = "document" THEN _render_document_block(block)
    ELSE Ok([renderer |-> "generic", pre |-> _safe_json(block)])

\* lines 107-232
_render_block(block, index, msg, depth) ==
    IF ~hasattr(block, "type") THEN Raise("AttributeError")
    ELSE LET tooltip_text == _get_block_tooltip_text(block.type)
             body == render_body(block, msg, depth) IN
         IF ~body.ok THEN body
         ELSE Ok([label |-> replace_underscore(block.type),
                  tooltip_content |-> IF tooltip_text # PyNone THEN tooltip_text ELSE "",
                  hover_style |-> tooltip_text # PyNone,
                  badge |-> block_badge(index),
                  body |-> body.html])

(* ------------------------------- inputs -------------------------------- *)

Str(n, c, last) == [i \in 1..n |-> IF i = n THEN last ELSE c]

Usage == [input_tokens |-> 10, output_tokens |-> 5]

\* a Response; usage is <<>> (None) or <<usage>>
Message(usage, content) ==
    [id |-> "msg_1", model |-> "claude", stop_reason |-> "end_turn",
     role |-> "assistant", usage |-> usage, content |-> content]

Obj(py, enc, rcd) == [py |-> py, enc |-> enc] @@ rcd

Input(enc) == Obj("dict", enc, [query |-> "q"])

SearchResult(u) ==
    Obj("pydantic", "json",
        [type |-> "web_search_result", title |-> "title", url |-> u,
         page_age |-> "1 day", encrypted_content |-> <<"e", "n", "c">>])

\* the segments of every variant, well-formed and not
BlockPool == <<
    Obj("pydantic", "json", [type |-> "text", text |-> <<"h", "i">>]),
    Obj("pydantic", "json", [type |-> "tool_use", name |-> "calc", id |-> "tu_1",
                             input |-> Input("json")]),
    Obj("pydantic", "str_only", [type |-> "tool_use", name |-> "calc", id |-> "tu_2",
                                 input |-> Input("str_only")]),
    Obj("pydantic", "json", [type |-> "tool_use", id |-> "tu_3",
                             input |-> Input("json")]),
    Obj("pydantic", "json", [type |-> "tool_result", tool_use_id |-> "tu_1",
                             is_error |-> TRUE,
                             content |-> [py |-> "str", value |-> "boom"]]),
    Obj("pydantic", "json", [type |-> "tool_result", tool_use_id |-> "tu_1",
                             content |-> [py |-> "list", items |-> <<
                                 Obj("pydantic", "json", [type |-> "text", text |-> <<"r">>]),
                                 Obj("dict", "json", [text |-> <<"d">>]),
                                 Obj("object", "unencodable", [type |-> "blob"]),
                                 Obj("pydantic", "str_only", [type |-> "stamp"]) >>]]),
    Obj("pydantic", "json", [type |-> "tool_result", tool_use_id |-> "tu_1",
                             is_error |-> FALSE,
                             content |-> [py |-> "int", repr |-> "42"]]),
    Obj("pydantic", "json", [type |-> "server_tool_use", name |-> "web_search",
                             id |-> "st_1", input |-> Input("json")]),
    Obj("pydantic", "unencodable", [type |-> "server_tool_use", name |-> "web_search",
                                    id |-> "st_2", input |-> Input("unencodable")]),
    Obj("pydantic", "json", [type |-> "web_search_tool_result",
                             content |-> <<SearchResult(1)>>]),
    Obj("pydantic", "json", [type |-> "image",
                             source |-> Obj("dict", "json",
                                 [type |-> "base64", media_type |-> "image/png",
                                  data |-> Str(8, "A", "=")])]),
    Obj("pydantic", "json", [type |-> "image",
                             source |-> Obj("pydantic", "json",
                                 [type |-> "url", url |-> "https://img"])]),
    Obj("pydantic", "json", [type |-> "image",
                             source |-> Obj("dict", "json", [type |-> "file"])]),
    Obj("pydantic", "json", [type |-> "thinking", thinking |-> <<"h", "m">>]),
    Obj("pydantic", "json", [type |-> "thinking"]),
    Obj("pydantic", "json", [type |-> "document",
                             source |-> Obj("pydantic", "json",
                                 [type |-> "base64", media_type |-> "application/pdf",
                                  data |-> Str(4, "J", "=")])]),
    Obj("pydantic", "json", [type |-> "redacted_thinking", data |-> "xyz"]),
    Obj("pydantic", "str_only", [type |-> "mystery", when |-> "datetime", extra |-> 1]),
    Obj("object", "str_only", [type |-> "mystery", when |-> "datetime"]),
    Obj("object", "unencodable", [type |-> "mystery", self |-> "cycle"]),
    Obj("pydantic", "json", [type |-> "text"]),
    Obj("object", "json", [text |-> <<"n", "o">>]) >>

\* the n elements of pool from position start on, cyclically
Rot(pool, start, n) == [i \in 1..n |-> pool[((start + i - 2) % Len(pool)) + 1]]

\* segments for citation cross-referencing: search segments whose results
\* are at the URLs of UrlPool and text segments with citation lists
UrlPool == <<"u1", "u2">>

WebCitation(u) ==
    [type |-> "web_search_result_location", url |-> u, cited_text |-> <<"c", "t">>]

CharCitation ==
    [type |-> "char_location", document_index |-> 0, cited_text |-> <<"d", "t">>]

\* a citation without excerpt
BareCitation == [type |-> "web_search_result_location", url |-> "u1"]

CitationPool ==
    <<WebCitation("u1"), WebCitation("u2"), CharCitation, BareCitation>>

\* <<"search", start, n>>: a search segment with the n results
\* Rot(UrlPool, start, n); <<"text", start, n>>: a text segment with the n
\* citations Rot(CitationPool, start, n); the lists have the two longest
\* lengths the bounds allow
CiteBlockDescs ==
    {<<"search", st, n>> :
        st \in 1..Len(UrlPool), n \in (MaxResults - 1)..MaxResults}
    \cup {<<"text", st, n>> :
        st \in 1..Len(CitationPool), n \in (MaxCitations - 1)..MaxCitations}

CiteBlock(d) ==
    IF d[1] = "search"
    THEN Obj("pydantic", "json",
             [type |-> "web_search_tool_result",
              content |-> [i \in 1..d[3] |-> SearchResult(Rot(UrlPool, d[2], d[3])[i])]])
    ELSE Obj("pydantic", "json",
             [type |-> "text", text |-> <<"s", "e", "e">>,
              citations |-> Rot(CitationPool, d[2], d[3])])

\* text segments around the length thresholds
TextLens == {0, 1, LongTextLimit, LongTextLimit + 1}

ExcerptLens == {1, CitedTextLimit, CitedTextLimit + 1, CitedTextLimit + 50}

\* <<n, c, last, cit>>: a text of n characters c ending in last; cit = -2: no
\* citations field, -1: an empty citations list, else one citation whose
\* excerpt has cit characters
TextBlockDescs ==
    {<<n, cl[1], cl[2], cit>> :
        n \in TextLens,
        cl \in {<<" ", "\t">>, <<"a", "a">>, <<" ", "a">>},
        cit \in {-2, -1, 1}}
    \cup {<<3, "a", "b", cit>> : cit \in ExcerptLens}

TextBlock(d) ==
    LET base == Obj("pydantic", "json", [type |-> "text", text |-> Str(d[1], d[2], d[3])])
    IN  IF d[4] = -2 THEN base
        ELSE IF d[4] = -1 THEN base @@ [citations |-> <<>>]
        ELSE base @@ [citations |->
                 << [type |-> "char_location", cited_text |-> Str(d[4], "q", "z")] >>]

\* ToolResult segments: the error flag absent, true or false, and contents of
\* every shape
MaxResultBlocks == 1

MaxItems == 2

SubSegmentPool == <<
    Obj("pydantic", "json", [type |-> "text", text |-> <<"r">>]),
    Obj("dict", "json", [text |-> <<"d">>]),
    Obj("object", "unencodable", [type |-> "blob"]),
    Obj("dict", "json", [type |-> "text", text |-> <<"m">>]) >>

\* <<shape, k, n, e>>: shape "str": the k-th string; "list": the n sub-segments
\* Rot(SubSegmentPool, k, n); "other": the k-th value that is neither; e = 0:
\* no is_error field, 1: is_error true, 2: is_error false
ResultBlockDescs ==
    {<<sh[1], sh[2], sh[3], e>> :
        sh \in {<<"str", k, 0>> : k \in 1..2}
               \cup {<<"list", k, n>> :
                       k \in 1..Len(SubSegmentPool), n \in (MaxItems - 1)..MaxItems}
               \cup {<<"list", 1, 0>>}
               \cup {<<"other", k, 0>> : k \in 1..2},
        e \in 0..2}

ResultContent(d) ==
    IF d[1] = "str"
    THEN [py |-> "str", value |-> IF d[2] = 1 THEN "boom" ELSE "4"]
    ELSE IF d[1] = "list"
    THEN [py |-> "list", items |-> Rot(SubSegmentPool, d[2], d[3])]
    ELSE IF d[2] = 1 THEN [py |-> "int", repr |-> "42"]
    ELSE [py |-> "NoneType", repr |-> "None"]

ResultBlock(d) ==
    LET base == Obj("pydantic", "json",
                    [type |-> "tool_result", tool_use_id |-> "tu_1",
                     content |-> ResultContent(d)])
    IN  IF d[4] = 0 THEN base ELSE base @@ [is_error |-> d[4] = 1]

\* Image and Document segments: sources of every kind, as a mapping and as
\* an object
MaxMediaBlocks == 1

PayloadLens == {0, 1, 8, 9}

\* <<kind, py, k>>: kind "base64" with a payload of k characters, kind "url"
\* with the k-th URL, or the k-th other kind; py the shape of the source
SourceDescs ==
    {<<"base64", py, k>> : py \in {"dict", "pydantic"}, k \in PayloadLens}
    \cup {<<"url", py, k>> : py \in {"dict", "pydantic"}, k \in 1..2}
    \cup {<<"other", py, k>> : py \in {"dict", "pydantic"}, k \in 1..2}

Source(d) ==
    IF d[1] = "base64"
    THEN Obj(d[2], "json", [type |-> "base64", media_type |-> "image/png",
                            data |-> Str(d[3], "A", "=")])
    ELSE IF d[1] = "url"
    THEN Obj(d[2], "json", [type |-> "url",
                            url |-> IF d[3] = 1 THEN "https://a" ELSE "https://b"])
    ELSE Obj(d[2], "json", [type |-> IF d[3] = 1 THEN "file" ELSE "text"])

MediaBlockDescs == {<<t, d>> : t \in {"image", "document"}, d \in SourceDescs}

MediaBlock(td) == Obj("pydantic", "json", [type |-> td[1], source |-> Source(td[2])])

\* search segments whose results are not all tagged 'web_search_result',
\* and text segments citing their URLs
MaxSearchBlocks == 3

SearchHit(u) == [SearchResult(u) EXCEPT !.title = "title of " \o u]

\* a result with a URL and another tag
OtherResult(u) == Obj("pydantic", "json", [type |-> "web_page", url |-> u])

\* a result without URL
ErrorResult ==
    Obj("pydantic", "json",
        [type |-> "web_search_tool_result_error", error_code |-> "unavailable"])

ResultPool == <<SearchHit("u1"), OtherResult("u2"), SearchHit("u2"), ErrorResult>>

WebCitationPool == <<WebCitation("u1"), WebCitation("u2")>>

SearchBlockDescs ==
    {<<"search", st, n>> :
        st \in 1..Len(ResultPool), n \in (MaxResults - 1)..MaxResults}
    \cup {<<"text", st, n>> :
        st \in 1..Len(WebCitationPool), n \in (MaxCitations - 1)..MaxCitations}

SearchBlock(d) ==
    IF d[1] = "search"
    THEN Obj("pydantic", "json",
             [type |-> "web_search_tool_result",
              content |-> Rot(ResultPool, d[2], d[3])])
    ELSE Obj("pydantic", "json",
             [type |-> "text", text |-> <<"s", "e", "e">>,
              citations |-> Rot(WebCitationPool, d[2], d[3])])

(* ---------------------------- state machine ---------------------------- *)

Start(m) ==
    /\ message = m
    /\ pc = "call"
    /\ idx = 0
    /\ header_html = <<>>
    /\ content_html = <<>>
    /\ displayed = <<>>
    /\ error = "none"

Init ==
    \E u \in {<<>>, <<Usage>>} : \E k \in 0..MaxBlocks :
        \E sel \in [1..k -> 1..Len(BlockPool)] :
            Start(Message(u, [i \in 1..k |-> BlockPool[sel[i]]]))

InitCite ==
    \E k \in 0..MaxCiteBlocks : \E sel \in [1..k -> CiteBlockDescs] :
        Start(Message(<<Usage>>, [i \in 1..k |-> CiteBlock(sel[i])]))

InitText ==
    \E k \in 0..MaxTextBlocks : \E sel \in [1..k -> TextBlockDescs] :
        Start(Message(<<>>, [i \in 1..k |-> TextBlock(sel[i])]))

InitResult ==
    \E k \in 0..MaxResultBlocks : \E sel \in [1..k -> ResultBlockDescs] :
        Start(Message(<<>>, [i \in 1..k |-> ResultBlock(sel[i])]))

InitMedia ==
    \E u \in {<<>>, <<Usage>>} : \E k \in 0..MaxMediaBlocks :
        \E sel \in [1..k -> MediaBlockDescs] :
            Start(Message(u, [i \in 1..k |-> MediaBlock(sel[i])]))

InitSearch ==
    \E k \in 0..MaxSearchBlocks : \E sel \in [1..k -> SearchBlockDescs] :
        Start(Message(<<Usage>>, [i \in 1..k |-> SearchBlock(sel[i])]))

\* lines 34-82: the header, the usage line when message.usage is truthy, and
\* the opening of the content container
build_header ==
    /\ pc = "call"
    /\ header_html' = << [title |-> "Claude API Response", id |-> message.id,
                          model |-> message.model, stop |-> message.stop_reason,
                          role |-> message.role] >>
                      \o (IF message.usage # <<>>
                          THEN << [input |-> message.usage[1].input_tokens,
                                   output |-> message.usage[1].output_tokens] >>
                          ELSE <<>>)
    /\ content_html' = <<>>
    /\ idx' = 0
    /\ pc' = "loop"
    /\ UNCHANGED <<message, displayed, error>>

\* the loop with skip-and-continue on a failing segment
render_next_block_skip ==
    /\ pc = "loop"
    /\ idx < Len(message.content)
    /\ LET r == _render_block(message.content[idx + 1], idx, message, 0) IN
       /\ content_html' = IF r.ok THEN Append(content_html, r.html) ELSE content_html
       /\ idx' = idx + 1
       /\ UNCHANGED <<pc, error>>
    /\ UNCHANGED <<message, header_html, displayed>>

\* lines 84-85: one iteration; an exception leaves _build_html and
\* visualize_message (lines 26-27) at once
render_next_block ==
    /\ pc = "loop"
    /\ idx < Len(message.content)
    /\ LET r == _render_block(message.content[idx + 1], idx, message, 0) IN
       IF r.ok
       THEN /\ content_html' = Append(content_html, r.html)
            /\ idx' = idx + 1
            /\ UNCHANGED <<pc, error>>
       ELSE /\ pc' = "raised"
            /\ error' = r.error
            /\ UNCHANGED <<content_html, idx>>
    /\ UNCHANGED <<message, header_html, displayed>>

\* lines 87-89 and 27: the document is returned and written to the display
display_html ==
    /\ pc = "loop"
    /\ idx = Len(message.content)
    /\ displayed' = Append(displayed, [header |-> header_html, blocks |-> content_html])
    /\ pc' = "displayed"
    /\ UNCHANGED <<message, idx, header_html, content_html, error>>

Next == build_header \/ render_next_block \/ display_html

Spec == Init /\ [][Next]_vars

SpecCite == InitCite /\ [][Next]_vars

SpecText == InitText /\ [][Next]_vars

SpecResult == InitResult /\ [][Next]_vars

SpecMedia == InitMedia /\ [][Next]_vars

SpecSearch == InitSearch /\ [][Next]_vars

(* ------------------------------- claims -------------------------------- *)

Blocks == message.content

N == Len(Blocks)

\* the indices of the segments whose fragment has been produced
Rendered == 1..Len(content_html)

Finished == pc = "displayed"

\* the fields each variant's renderer reads without a guard
RequiredFields(type) ==
    CASE type = "text" -> {"text"}
      [] type \in {"tool_use", "server_tool_use"} -> {"name", "id", "input"}
      [] type = "tool_result" -> {"tool_use_id", "content"}
      [] type = "web_search_tool_result" -> {"content"}
      [] type \in {"image", "document"} -> {"source"}
      [] type = "thinking" -> {"thinking"}
      [] OTHER -> {}

LacksField(block) ==
    \/ "type" \notin DOMAIN block
    \/ \E f \in RequiredFields(block.type) : f \notin DOMAIN block

\* C1: a finished render holds the header followed by exactly N segment
\* fragments, the i-th being the rendering of the i-th segment with the
\* badge "Block i-1"; a Response without segments renders the header, no
\* fragment, and raises nothing.
C1_FragmentsInOrder ==
    /\ Finished =>
         /\ Len(displayed) = 1
         /\ Len(displayed[1].header) >= 1
         /\ displayed[1].header[1].title = "Claude API Response"
         /\ Len(displayed[1].blocks) = N
         /\ \A i \in 1..N :
              /\ displayed[1].blocks[i].badge = i - 1
              /\ displayed[1].blocks[i].label = replace_underscore(Blocks[i].type)
              /\ displayed[1].blocks[i].body =
                     render_body(Blocks[i], message, 0).html
    /\ N = 0 => pc # "raised"
    /\ \A i \in Rendered : content_html[i].badge = i - 1

C1_Witness ==
    /\ Finished
    /\ N = 2
    /\ Blocks[1].type # Blocks[2].type
    /\ displayed[1].blocks[2].badge = 1

\* C7: a segment that lacks a field its renderer reads is never passed: the
\* render raises at it (or before), no later segment is rendered and the
\* display sink stays empty.
C7_FailFastNoOutput ==
    /\ pc = "raised" => displayed = <<>>
    /\ \A i \in 1..N : LacksField(Blocks[i]) =>
         /\ idx < i
         /\ Len(content_html) < i
         /\ ~Finished
         /\ displayed = <<>>
    /\ (pc = "raised" /\ error = "AttributeError") => LacksField(Blocks[idx + 1])

C7_Witness ==
    /\ pc = "raised"
    /\ error = "AttributeError"
    /\ Len(content_html) = 1
    /\ N = 2
    /\ LacksField(Blocks[2])
    /\ displayed = <<>>

\* a ToolUse or ServerToolUse segment whose input json.dumps cannot encode
InputEncodingFails(block) ==
    /\ ~LacksField(block)
    /\ block.type \in {"tool_use", "server_tool_use"}
    /\ block.input.enc # "json"

\* C8: a failing structured-text encoding never aborts the render: the
\* render does not raise at a ToolUse or ServerToolUse segment whose input
\* cannot be encoded.
C8_EncodingFailureRecovered ==
    ~(pc = "raised" /\ InputEncodingFails(Blocks[idx + 1]))

KnownTags == {"text", "tool_use", "tool_result", "server_tool_use",
              "web_search_tool_result", "image", "thinking", "document"}

UnknownTag(block) == "type" \in DOMAIN block /\ block.type \notin KnownTags

\* C9: a segment with an unknown variant tag never raises; its fragment is
\* the generic one, holding the segment's fields as structured text or the
\* serialization placeholder, and its shell has no tooltip.
C9_UnknownGeneric ==
    /\ pc = "raised" => ~UnknownTag(Blocks[idx + 1])
    /\ \A i \in Rendered : UnknownTag(Blocks[i]) =>
         /\ content_html[i].body.renderer = "generic"
         /\ \/ /\ "json" \in DOMAIN content_html[i].body.pre
               /\ DOMAIN content_html[i].body.pre.json = (DOMAIN Blocks[i]) \ Meta
            \/ "unable_to_serialize" \in DOMAIN content_html[i].body.pre
         /\ content_html[i].tooltip_content = ""
         /\ ~content_html[i].hover_style

C9_Witness ==
    /\ Finished
    /\ N = 2
    /\ UnknownTag(Blocks[1]) /\ UnknownTag(Blocks[2])
    /\ "unable_to_serialize" \in DOMAIN displayed[1].blocks[1].body.pre
    /\ "json" \in DOMAIN displayed[1].blocks[2].body.pre

(* ------------------------- citation numbering -------------------------- *)

IsSearch(block) == "type" \in DOMAIN block /\ block.type = "web_search_tool_result"

IsText(block) == "type" \in DOMAIN block /\ block.type = "text"

\* <<b, k>>: the k-th result of search segment b is at URL u
Occurrences(u) ==
    {bk \in (1..N) \X (1..MaxResults + 1) :
        /\ IsSearch(Blocks[bk[1]])
        /\ bk[2] <= Len(Blocks[bk[1]].content)
        /\ Blocks[bk[1]].content[bk[2]].url = u}

ResultSlots ==
    {bk \in (1..N) \X (1..MaxResults + 1) :
        IsSearch(Blocks[bk[1]]) /\ bk[2] <= Len(Blocks[bk[1]].content)}

AllResultUrls == {Blocks[bk[1]].content[bk[2]].url : bk \in ResultSlots}

UrlsOccurOnce == \A u \in AllResultUrls : Cardinality(Occurrences(u)) = 1

\* <<i, j>>: the j-th citation of the rendered text segment i renders an excerpt
Excerpts ==
    {ij \in Rendered \X (1..MaxCitations + 1) :
        /\ IsText(Blocks[ij[1]])
        /\ "citations" \in DOMAIN Blocks[ij[1]]
        /\ ij[2] <= Len(Blocks[ij[1]].citations)
        /\ "cited_text" \in DOMAIN Blocks[ij[1]].citations[ij[2]]}

CitationAt(ij) == Blocks[ij[1]].citations[ij[2]]

\* the entry rendered for the citation: the entries of citation_info are the
\* excerpts in list order
EntryAt(ij) ==
    LET cs == Blocks[ij[1]].citations
        rank == Cardinality({m \in 1..ij[2] : "cited_text" \in DOMAIN cs[m]})
    IN  content_html[ij[1]].body.citation_info[rank]

LabelAt(ij) == EntryAt(ij).citation_number

HasUrl(ij) == "url" \in DOMAIN CitationAt(ij)

\* C2: with every result URL occurring once in the Response, a citation of
\* the URL of the k-th result of a search segment is labelled k, wherever
\* the search segment and the citation are.
C2_LabelIsResultIndex ==
    UrlsOccurOnce =>
        \A ij \in Excerpts : HasUrl(ij) =>
            \A bk \in Occurrences(CitationAt(ij).url) : LabelAt(ij) = bk[2]

C2_Witness ==
    /\ Finished
    /\ UrlsOccurOnce
    /\ \E ij \in Excerpts :
         /\ HasUrl(ij)
         /\ \E bk \in Occurrences(CitationAt(ij).url) :
              /\ bk[1] > ij[1]
              /\ bk[2] # ij[2]
              /\ LabelAt(ij) = bk[2]
    /\ \E ij \in Excerpts :
         /\ HasUrl(ij)
         /\ \E bk \in Occurrences(CitationAt(ij).url) : bk[1] < ij[1] /\ bk[2] # ij[2]

\* C3: a citation without URL, or whose URL is at no search result, is
\* labelled with its 1-based position in the citation list, the citations
\* without excerpt counted.
C3_FallbackIsPosition ==
    \A ij \in Excerpts :
        (~HasUrl(ij) \/ Occurrences(CitationAt(ij).url) = {}) => LabelAt(ij) = ij[2]

C3_Witness ==
    /\ Finished
    /\ \E ij \in Excerpts :
         /\ HasUrl(ij) /\ Occurrences(CitationAt(ij).url) = {}
         /\ ij[2] = 2
         /\ "cited_text" \notin DOMAIN Blocks[ij[1]].citations[1]
         /\ Len(content_html[ij[1]].body.citation_info) = 1
         /\ LabelAt(ij) = 2
         /\ \E b \in 1..N : IsSearch(Blocks[b])
    /\ \E ij \in Excerpts : ~HasUrl(ij) /\ ij[2] = 2 /\ LabelAt(ij) = 2

\* C4 as claimed: any two citations of one URL carry the same label.
C4_SameUrlSameLabel ==
    \A ij \in Excerpts : \A kl \in Excerpts :
        (HasUrl(ij) /\ HasUrl(kl) /\ CitationAt(ij).url = CitationAt(kl).url)
            => LabelAt(ij) = LabelAt(kl)

\* C4 as amended: any two citations of one URL that is the URL of some search
\* result of the Response carry the same label, in the same or in different
\* text segments.
C4_MappedUrlSameLabel ==
    \A ij \in Excerpts : \A kl \in Excerpts :
        (/\ HasUrl(ij) /\ HasUrl(kl)
         /\ CitationAt(ij).url = CitationAt(kl).url
         /\ Occurrences(CitationAt(ij).url) # {})
            => LabelAt(ij) = LabelAt(kl)

C4_Witness ==
    /\ Finished
    /\ \E ij \in Excerpts : \E kl \in Excerpts :
         /\ ij[1] # kl[1]
         /\ ij[2] # kl[2]
         /\ HasUrl(ij) /\ HasUrl(kl)
         /\ CitationAt(ij).url = CitationAt(kl).url
         /\ Occurrences(CitationAt(ij).url) # {}
         /\ LabelAt(ij) = LabelAt(kl)

(* ----------------------------- text paths ------------------------------ *)

\* the rendered text segments
RenderedTexts == {i \in Rendered : IsText(Blocks[i])}

PathAt(i) == content_html[i].body.path

Blank(text) == \A k \in 1..Len(text) : text[k] \in {" ", "\t"}

Cited(block) == "citations" \in DOMAIN block /\ block.citations # <<>>

\* C5 as claimed: a text of 1001 characters is rendered by the long-form
\* path, a text of 1000 characters is not.
C5_LongAt1001 ==
    \A i \in RenderedTexts :
        /\ Len(Blocks[i].text) = 1001 => PathAt(i) = "long"
        /\ Len(Blocks[i].text) = 1000 => PathAt(i) # "long"

\* C5 as amended: a text of 1001 characters that is not whitespace-only, in a
\* segment without citations, is rendered by the long-form path labelled
\* with its character count; a text of 1000 characters never is.
C5_LongAt1001Uncited ==
    \A i \in RenderedTexts :
        /\ (Len(Blocks[i].text) = 1001 /\ ~Blank(Blocks[i].text) /\ ~Cited(Blocks[i]))
              => (PathAt(i) = "long" /\ content_html[i].body.characters = 1001)
        /\ Len(Blocks[i].text) = 1000 => PathAt(i) # "long"

C5_Witness ==
    /\ Finished
    /\ \E i \in RenderedTexts :
         /\ Len(Blocks[i].text) = 1001
         /\ PathAt(i) = "long"
         /\ content_html[i].body.characters = 1001

\* C6 as claimed: an empty or whitespace-only text is rendered by the
\* empty-placeholder path, whatever its other fields.
C6_BlankIsEmptyPath ==
    \A i \in RenderedTexts : Blank(Blocks[i].text) => PathAt(i) = "empty"

\* C6 as amended: an empty or whitespace-only text is never rendered by the
\* plain or the long-form path, whatever its length; in a segment without
\* citations it is rendered by the empty-placeholder path.
C6_BlankNeverPlainOrLong ==
    \A i \in RenderedTexts : Blank(Blocks[i].text) =>
        /\ PathAt(i) \notin {"plain", "long"}
        /\ ~Cited(Blocks[i]) => PathAt(i) = "empty"

C6_Witness ==
    /\ Finished
    /\ \E i \in RenderedTexts :
         /\ Blank(Blocks[i].text)
         /\ Len(Blocks[i].text) = 1001
         /\ PathAt(i) = "empty"

\* C10: an excerpt of more than 100 characters is rendered as its first 100
\* characters followed by "...", an excerpt of at most 100 characters as it is.
C10_ExcerptTruncation ==
    \A ij \in Excerpts :
        LET cited == CitationAt(ij).cited_text
            shown == EntryAt(ij).cited_text
        IN  /\ Len(cited) > 100 =>
                 /\ Len(shown) = 103
                 /\ \A k \in 1..100 : shown[k] = cited[k]
                 /\ \A k \in 101..103 : shown[k] = "."
            /\ Len(cited) <= 100 => shown = cited

C10_Witness ==
    /\ Finished
    /\ \E ij \in Excerpts :
         /\ Len(CitationAt(ij).cited_text) = 101
         /\ Len(EntryAt(ij).cited_text) = 103
    /\ N = 1

(* ---------------------------- tool results ----------------------------- *)

RenderedResults ==
    {i \in Rendered : "type" \in DOMAIN Blocks[i] /\ Blocks[i].type = "tool_result"}

FlagSet(block) == "is_error" \in DOMAIN block /\ block.is_error = TRUE

\* C11: a ToolResult fragment carries the ERROR badge exactly when is_error is
\* present and true; the tool-use identifier and the result content are
\* rendered with and without the badge.
C11_ErrorBadge ==
    \A i \in RenderedResults :
        /\ content_html[i].body.error_badge <=> FlagSet(Blocks[i])
        /\ content_html[i].body.tool_use_id = Blocks[i].tool_use_id
        /\ DOMAIN content_html[i].body.result # {}

C11_Witness ==
    /\ Finished
    /\ \E i \in RenderedResults :
         /\ "is_error" \in DOMAIN Blocks[i]
         /\ ~Blocks[i].is_error
         /\ ~content_html[i].body.error_badge
         /\ Blocks[i].content.py = "list"

\* a sub-segment that exposes its tag as an attribute (a mapping has none)
HasTag(sub) == sub.py # "dict" /\ "type" \in DOMAIN sub

\* the structured-text form of a sub-segment, or the placeholder
Serialization(sub, shown) ==
    \/ /\ "json" \in DOMAIN shown
       /\ DOMAIN shown.json = (DOMAIN sub) \ {"py", "enc"}
       /\ \A f \in DOMAIN shown.json : shown.json[f] = sub[f]
    \/ "unable_to_serialize" \in DOMAIN shown

RenderedImages ==
    {i \in Rendered : "type" \in DOMAIN Blocks[i] /\ Blocks[i].type = "image"}

\* C12: an Image with a base64 source reports its media type and the length
\* of its payload and embeds exactly that payload; with a url source it
\* reports and embeds the URL; with any other kind it reports the kind and
\* embeds nothing; a source given as a mapping renders as one given as an
\* object does, and neither raises.
C12_ImageSource ==
    /\ pc # "raised"
    /\ \A i \in RenderedImages :
         LET source == Blocks[i].source
             body == content_html[i].body
         IN  /\ body.source_type = <<source.type>>
             /\ source.type = "base64" =>
                  /\ body.media_type = <<source.media_type>>
                  /\ body.size = Len(source.data)
                  /\ body.img_src = [scheme |-> "data",
                                     media_type |-> <<source.media_type>>,
                                     base64 |-> <<source.data>>]
             /\ source.type = "url" =>
                  /\ body.url = <<source.url>>
                  /\ body.img_src = [href |-> <<source.url>>]
             /\ source.type \notin {"base64", "url"} =>
                  DOMAIN body = {"renderer", "source_type"}

C12_Witness ==
    /\ Finished
    /\ \E i \in RenderedImages :
         /\ Blocks[i].source.py = "dict"
         /\ Blocks[i].source.type = "base64"
         /\ Len(Blocks[i].source.data) = 8
         /\ content_html[i].body.size = 8
         /\ content_html[i].body.img_src.base64 = <<Blocks[i].source.data>>

(* --------------------------- search results ---------------------------- *)

RenderedSearches == {b \in Rendered : IsSearch(Blocks[b])}

Tagged(result) == "type" \in DOMAIN result /\ result.type = "web_search_result"

MappedUrls ==
    {Blocks[bk[1]].content[bk[2]].url :
        bk \in {x \in ResultSlots : "url" \in DOMAIN Blocks[x[1]].content[x[2]]}}

\* C15: in the finished document, a citation label taken from the
\* URL-to-index map is the label of a displayed search-result entry with the
\* citation's URL.
C15_LabelsAreDisplayed ==
    Finished =>
        \A ij \in Excerpts :
            (HasUrl(ij) /\ CitationAt(ij).url \in MappedUrls) =>
                \E b \in RenderedSearches :
                    \E e \in 1..Len(content_html[b].body.entries) :
                        /\ content_html[b].body.entries[e].result_label = LabelAt(ij)
                        /\ content_html[b].body.entries[e].url = CitationAt(ij).url

====
